---- MODULE Spec2Model ----
(***************************************************************************)
(* A model of the time-windowed histogram of src/src/lib.rs: the          *)
(* overflow-safe running sum (Scale), the observed range (Range), the      *)
(* configuration (Config: validate, find) and the histogram itself         *)
(* (Histogram: append with bucket creation, band admission and eviction,   *)
(* and the read-only queries).                                             *)
(*                                                                         *)
(* Machine integers are scaled down: U64_MAX stands for u64::MAX and       *)
(* U32_MAX for u32::MAX.  The code never relies on the widths being powers *)
(* of two, only on the maxima, on MAX - 1 (Range::default) and on          *)
(* wrap-around modulo MAX + 1 in a build without overflow checks.          *)
(*                                                                         *)
(* An arithmetic overflow in Rust panics in a build with overflow checks   *)
(* (debug, the build the tests run in) and wraps in a build without        *)
(* (release).  The variable overflow_checks names the build, chosen in     *)
(* Init; panicked says that a call was aborted by such a panic.            *)
(***************************************************************************)
EXTENDS Integers, Sequences, FiniteSets, TLC

VARIABLES
    config,          \* Histogram.config / the Config under validate and find
    elapsed,         \* self.start.elapsed().as_secs(): whole seconds since new()
    buckets,         \* Histogram.buckets: newest at index 1 (front), oldest last
    range,           \* Histogram.range: overall range of the live buckets
    range_lifetime,  \* Histogram.range_lifetime
    overflow_checks, \* TRUE: arithmetic overflow panics; FALSE: it wraps
    panicked,        \* a call was aborted by an arithmetic panic
    log,             \* history: every append call, <<value, time of its bucket>>
    evicted,         \* history: the times of the buckets popped so far
    acc,             \* a Scale under test (the RunningSum)
    acc_hist,        \* history of acc: true total, calls, overflow seen, merged
    find_res,        \* the last Config::find call: selector and result
    validate_res,    \* the last Config::validate result
    check_in_res     \* the last Range::check_in call on a Range under test

vars == <<config, elapsed, buckets, range, range_lifetime, overflow_checks,
          panicked, log, evicted, acc, acc_hist, find_res, validate_res,
          check_in_res>>

histVars == <<elapsed, buckets, range, range_lifetime, panicked, log, evicted>>
accVars == <<acc, acc_hist>>
cfgVars == <<find_res, validate_res>>
rangeVars == <<check_in_res>>

----------------------------------------------------------------------------
(* Bounds of the model *)

\* u64::MAX, scaled
U64_MAX == 15
\* u32::MAX, scaled
U32_MAX == 6
\* the clock stops here
MaxElapsed == 7
\* append calls on one histogram
MaxAppends == 4
\* calls on the Scale under test
MaxScaleOps == 8
\* length of the enumerated percentile lists
MaxPercentiles == 2
\* the widest Range under test
MaxSpan == 215

\* the values appended to a histogram
Values == {0, 5, U64_MAX}

Min(a, b) == IF a < b THEN a ELSE b

\* wrap-around of a u64 / u32 result in a build without overflow checks
Wrap64(x) == x % (U64_MAX + 1)
Wrap32(x) == x % (U32_MAX + 1)

----------------------------------------------------------------------------
(* Scale: the running sum *)

ScaleZero == [sum |-> 0, power |-> 0, count |-> 0]

\* a residual as a two's-complement wrapping_add would leave it
ScaleResidualWrapping(value, v) == value - v - 1

\* Scale::append, the wrap branch's residual
ScaleResidual(value, v) == value - v

\* an append that leaves the wrap branch before it counts the sample
ScaleAppendCountsNoWrap(s, value) ==
    LET v == U64_MAX - s.sum
    IN IF value >= v
       THEN [s EXCEPT !.power = IF s.power < U32_MAX THEN s.power + 1 ELSE s.power,
                      !.sum = value - v]
       ELSE [s EXCEPT !.sum = s.sum + value,
                      !.count = IF s.count < U32_MAX THEN s.count + 1 ELSE s.count]

\* Scale::append
ScaleAppend(s, value) ==
    LET v == U64_MAX - s.sum
        s1 == IF value >= v
              THEN [s EXCEPT !.power = IF s.power < U32_MAX THEN s.power + 1 ELSE s.power,
                             !.sum = ScaleResidual(value, v)]
              ELSE [s EXCEPT !.sum = s.sum + value]
    IN [s1 EXCEPT !.count = IF s1.count < U32_MAX THEN s1.count + 1 ELSE s1.count]

\* Scale::append: some addition or subtraction leaves its type's range
ScaleAppendOverflows(s, value) ==
    LET r == ScaleAppend(s, value)
    IN \/ U64_MAX - s.sum < 0
       \/ r.sum < 0 \/ r.sum > U64_MAX
       \/ r.power > U32_MAX
       \/ r.count > U32_MAX

\* Scale::avg; the division is by count, in u128, and the quotient is cast to u64
ScaleAvg(s) == Wrap64((s.sum + U64_MAX * s.power) \div s.count)

\* Scale::avg divides by zero
ScaleAvgPanics(s) == s.count = 0

----------------------------------------------------------------------------
(* Range *)

RangeDefault == [min |-> U64_MAX - 1, max |-> 0]

\* Range::check (and the same code inlined for the bucket's range in append)
RangeCheck(r, value) ==
    IF r.min > value THEN [r EXCEPT !.min = value]
    ELSE IF r.max < value THEN [r EXCEPT !.max = value]
    ELSE r

\* f32 arithmetic.  A positive f32 is [m, e]: the value m * 2^-e, with a
\* significand m of F32Bits bits (2^23 <= m < 2^24).  Every operation gives
\* the exact result rounded to the nearest such value, ties to the even m.

\* the bits of an f32's significand
F32Bits == 24

RECURSIVE Pow2(_)
Pow2(n) == IF n = 0 THEN 1 ELSE 2 * Pow2(n - 1)

\* n / d rounded to the nearest integer, ties to even
RoundEven(n, d) ==
    LET q == n \div d
        r == n % d
    IN IF 2 * r > d \/ (2 * r = d /\ q % 2 = 1) THEN q + 1 ELSE q

\* a rounding that carried into bit F32Bits: one exponent up
F32Norm(m, e) ==
    IF m = Pow2(F32Bits) THEN [m |-> Pow2(F32Bits - 1), e |-> e - 1] ELSE [m |-> m, e |-> e]

\* the exponent e, from e on, at which n * 2^e / d has F32Bits bits
RECURSIVE DivExp(_, _, _)
DivExp(n, d, e) ==
    IF (n * Pow2(e)) \div d >= Pow2(F32Bits - 1) THEN e ELSE DivExp(n, d, e + 1)

\* the f32 n / d, for integers 0 < n < 2^24 and 0 < d with n / d < 2^24
F32Div(n, d) ==
    LET e == DivExp(n, d, 0)
    IN F32Norm(RoundEven(n * Pow2(e), d), e)

\* the shift s, from s on, at which p / 2^s has F32Bits bits
RECURSIVE MulShift(_, _)
MulShift(p, s) ==
    IF p \div Pow2(s) < Pow2(F32Bits) THEN s ELSE MulShift(p, s + 1)

\* the f32 x * k, for a small integer k > 0
F32Mul(x, k) ==
    LET p == x.m * k
        s == MulShift(p, 0)
    IN F32Norm(RoundEven(p, Pow2(s)), x.e - s)

\* f32::round (half away from zero) of a positive f32 below 2^24, as an integer
F32Round(x) ==
    IF x.e > F32Bits THEN 0
    ELSE IF x.e = 0 THEN x.m
    ELSE (x.m + Pow2(x.e - 1)) \div Pow2(x.e)

\* Range::check_in, the margin as computed:
\* ((max - min) as f32 / 200f32 * (100f32 - p as f32)).round() as u64,
\* for a span below 2^24 (its cast to f32 is exact).  Dividing by 200 is
\* dividing by 25 and by 8, the latter exact in f32.  For p >= 100 the product
\* is zero or negative and the cast to u64 gives 0.
F32Margin(span, percentile) ==
    IF span = 0 \/ percentile >= 100 THEN 0
    ELSE LET q == F32Div(span, 25)
         IN F32Round(F32Mul([m |-> q.m, e |-> q.e + 3], 100 - percentile))

\* percentiles that pass Config::validate: those of the histograms and of the
\* Ranges under test
BandPercentiles == {51, 70, 75, 95, 99}

\* F32Margin, computed once for every span and percentile of the model
F32MarginOf ==
    [span \in 0..MaxSpan |->
        [percentile \in BandPercentiles |-> F32Margin(span, percentile)]]

\* Range::check_in, the margin pp; the cast to u64 saturates
CheckInPp(span, percentile) == Min(U64_MAX, F32MarginOf[span][percentile])

\* Range::check_in overflows: max - min, min + pp, or (when reached) max - pp
CheckInOverflows(r, percentile, value) ==
    \/ r.max < r.min
    \/ LET pp == CheckInPp(r.max - r.min, percentile)
       IN \/ r.min + pp > U64_MAX
          \/ r.min + pp <= value /\ r.max - pp < 0

\* Range::check_in, with wrapping arithmetic (equal to the exact one when
\* nothing overflows)
CheckIn(r, percentile, value) ==
    LET pp == CheckInPp(Wrap64(r.max - r.min), percentile)
    IN Wrap64(r.min + pp) <= value /\ Wrap64(r.max - pp) >= value

----------------------------------------------------------------------------
(* Config *)

\* the pieces Config::validate pushes onto its message
ErrLess100 == "'percentile' mut be less than 100%"
ErrGreat50 == "'percentile' mut be great than 50%"
ErrSpan == "'span' mut be great than 0"
ErrLive == "'live_time_sec' mut be great than 'span'"
Separator == ", "

\* Config::append: msg is the sequence of the pieces pushed onto the String
\* (every piece is non-empty, so msg.len() > 0 iff a piece was pushed)
ConfigAppend(msg, cnd, err) ==
    IF cnd
    THEN (IF Len(msg) > 0 THEN Append(msg, Separator) ELSE msg) \o <<err>>
    ELSE msg

\* a first condition that lets 100 pass
PercentileTooBigStrict(p) == p > 100

\* Config::validate, the first condition on a percentile
PercentileTooBig(p) == p >= 100

\* Config::validate, the second condition on a percentile
PercentileTooSmall(p) == p <= 50

\* Config::validate, the loop over the percentiles from position i
RECURSIVE ValidatePercentiles(_, _, _)
ValidatePercentiles(ps, i, msg) ==
    IF i > Len(ps) THEN msg
    ELSE ValidatePercentiles(ps, i + 1,
            ConfigAppend(ConfigAppend(msg, PercentileTooBig(ps[i]), ErrLess100),
                         PercentileTooSmall(ps[i]), ErrGreat50))

\* Config::validate
Validate(cfg) ==
    LET m1 == ValidatePercentiles(cfg.percentiles, 1, <<>>)
        m2 == ConfigAppend(m1, cfg.span_sec = 0, ErrSpan)
        m3 == ConfigAppend(m2, cfg.live_time_sec < cfg.span_sec + 1, ErrLive)
    IN IF Len(m3) > 0 THEN [ok |-> FALSE, msg |-> m3] ELSE [ok |-> TRUE, msg |-> <<>>]

\* a search loop without the break: it ends on the last match
RECURSIVE FindLoopNoBreak(_, _, _)
FindLoopNoBreak(ps, percentile, idx) ==
    IF idx > Len(ps) THEN [idx |-> idx, found |-> FALSE]
    ELSE LET rest == FindLoopNoBreak(ps, percentile, idx + 1)
         IN IF rest.found THEN rest
            ELSE IF ps[idx] = percentile THEN [idx |-> idx, found |-> TRUE]
            ELSE rest

\* Config::find, the search loop: the slot idx reached and whether it matched
RECURSIVE FindLoop(_, _, _)
FindLoop(ps, percentile, idx) ==
    IF idx > Len(ps) THEN [idx |-> idx, found |-> FALSE]
    ELSE IF ps[idx] = percentile THEN [idx |-> idx, found |-> TRUE]
    ELSE FindLoop(ps, percentile, idx + 1)

\* an index selector's slot without the reserved slot 0
IndexSlotNoReserve(percentile) == percentile

\* Config::find, the slot of an index selector
IndexSlot(percentile) == percentile + 1

\* Config::find
Find(cfg, percentile) ==
    IF percentile > 10
    THEN LET r == FindLoop(cfg.percentiles, percentile, 1)
         IN IF r.found
            THEN [ok |-> TRUE, slot |-> r.idx, err |-> <<>>]
            ELSE [ok |-> FALSE, slot |-> 0,
                  err |-> <<"cant find ", percentile, "% of ", Len(cfg.percentiles)>>]
    ELSE IF Len(cfg.percentiles) > 0 /\ Len(cfg.percentiles) > percentile
    THEN [ok |-> TRUE, slot |-> IndexSlot(percentile), err |-> <<>>]
    ELSE [ok |-> FALSE, slot |-> 0,
          err |-> <<"cant find #", percentile, " of ", Len(cfg.percentiles)>>]

----------------------------------------------------------------------------
(* Bucket and Histogram.  Slot k of a bucket (Rust's scale[k]) is scale[k + 1]
   here; the k-th configured percentile (Rust's percentiles[k - 1]) is
   percentiles[k]. *)

\* Bucket::new
BucketNew(time) == [time |-> time, scale |-> <<ScaleZero>>, range |-> RangeDefault]

\* Histogram::new
HistogramNew ==
    /\ buckets = <<>>
    /\ range = RangeDefault
    /\ range_lifetime = RangeDefault

\* Histogram::append, the elapsed seconds saturated to u32
AppendTime(secs) == IF secs >= U32_MAX THEN U32_MAX ELSE secs

\* Histogram::append, the condition to open a new bucket
NeedsNewBucket(bs, time, cfg) ==
    Len(bs) = 0 \/ time - bs[1].time > cfg.span_sec

\* a feed that counts the sample only where the bucket's minimum moves
FeedBucketInMinBranch(b, value) ==
    [b EXCEPT !.scale[1] = IF b.range.min > value THEN ScaleAppend(@, value) ELSE @,
              !.range = RangeCheck(@, value)]

\* Histogram::append, the newest bucket's slot 0 and own range take the value
FeedBucket(b, value) ==
    [b EXCEPT !.scale[1] = ScaleAppend(@, value),
              !.range = RangeCheck(@, value)]

\* a loop that creates the slot of a percentile only when the value is
\* admitted to it
RECURSIVE PercentileLoopLazy(_, _, _, _, _, _)
PercentileLoopLazy(b, ps, r, value, id, checks) ==
    IF id > Len(ps) THEN [b |-> b, panicked |-> FALSE]
    ELSE IF checks /\ CheckInOverflows(r, ps[id], value)
    THEN [b |-> b, panicked |-> TRUE]
    ELSE PercentileLoopLazy(
            IF CheckIn(r, ps[id], value)
            THEN [b EXCEPT !.scale = Append(@, ScaleAppend(ScaleZero, value))]
            ELSE b,
            ps, r, value, id + 1, checks)

\* Histogram::append, the loop over the percentile ids from id on the newest
\* bucket b, with the widened overall range r.  With overflow checks the loop
\* stops at the first check_in that overflows, after the slot was created.
RECURSIVE PercentileLoop(_, _, _, _, _, _)
PercentileLoop(b, ps, r, value, id, checks) ==
    IF id > Len(ps) THEN [b |-> b, panicked |-> FALSE]
    ELSE LET b1 == IF Len(b.scale) <= id
                   THEN [b EXCEPT !.scale = Append(@, ScaleZero)]
                   ELSE b
         IN IF checks /\ CheckInOverflows(r, ps[id], value)
            THEN [b |-> b1, panicked |-> TRUE]
            ELSE PercentileLoop(
                    IF CheckIn(r, ps[id], value)
                    THEN [b1 EXCEPT !.scale[id + 1] = ScaleAppend(@, value)]
                    ELSE b1,
                    ps, r, value, id + 1, checks)

\* Histogram::append, the condition to evict the oldest bucket
EvictDue(bs, cfg) ==
    Len(bs) > 1 /\ bs[Len(bs)].time > cfg.live_time_sec

\* a condition that also holds when the popped bucket's bound equals the range's
EvictedTouches(b, r) == b.range.min <= r.min \/ b.range.max >= r.max

\* Histogram::append, whether the popped bucket b makes the range be looked up again
EvictedWidens(b, r) == b.range.min < r.min \/ b.range.max > r.max

\* Histogram::append, the lookup of the new range over the remaining buckets from i
RECURSIVE LookupRange(_, _, _)
LookupRange(bs, i, r) ==
    IF i > Len(bs) THEN r
    ELSE LookupRange(bs, i + 1,
            [min |-> IF bs[i].range.min < r.min THEN bs[i].range.min ELSE r.min,
             max |-> IF bs[i].range.max > r.max THEN bs[i].range.max ELSE r.max])

\* Histogram::append(value), at the current elapsed time: what the call does
\* to the histogram
AppendCall(value) ==
    LET time == AppendTime(elapsed)
        bs1 == IF NeedsNewBucket(buckets, time, config)
               THEN <<BucketNew(time)>> \o buckets
               ELSE buckets
        r1 == RangeCheck(range, value)
        b1 == FeedBucket(bs1[1], value)
        lp == PercentileLoop(b1, config.percentiles, r1, value, 1, overflow_checks)
        bs2 == <<lp.b>> \o Tail(bs1)
        evict == ~lp.panicked /\ EvictDue(bs2, config)
        bs3 == IF evict THEN SubSeq(bs2, 1, Len(bs2) - 1) ELSE bs2
    IN /\ buckets' = bs3
       /\ range' = IF evict /\ EvictedWidens(bs2[Len(bs2)], r1)
                   THEN LookupRange(bs3, 1, RangeDefault)
                   ELSE r1
       /\ range_lifetime' = RangeCheck(range_lifetime, value)
       /\ panicked' = lp.panicked
       /\ evicted' = IF evict THEN evicted \cup {bs2[Len(bs2)].time} ELSE evicted

\* the start offset of the bucket an append call at the current time feeds
FedBucketTime ==
    IF NeedsNewBucket(buckets, AppendTime(elapsed), config)
    THEN AppendTime(elapsed)
    ELSE buckets[1].time

\* Histogram::append(value), recorded in the history of calls
HistAppend(value) ==
    /\ ~panicked
    /\ Len(log) < MaxAppends
    /\ AppendCall(value)
    /\ log' = Append(log, [value |-> value, bucket |-> FedBucketTime])
    /\ UNCHANGED <<config, elapsed, overflow_checks, acc, acc_hist, find_res, validate_res,
                   check_in_res>>

\* Histogram::append(value), not recorded: the calls can go on for ever
HistAppendUnlogged(value) ==
    /\ ~panicked
    /\ AppendCall(value)
    /\ UNCHANGED <<config, elapsed, overflow_checks, log, acc, acc_hist, find_res,
                   validate_res, check_in_res>>

\* the clock: one more whole second has elapsed since Histogram::new
Tick ==
    /\ ~panicked
    /\ elapsed < MaxElapsed
    /\ elapsed' = elapsed + 1
    /\ UNCHANGED <<config, buckets, range, range_lifetime, overflow_checks, panicked,
                   log, evicted, acc, acc_hist, find_res, validate_res, check_in_res>>

\* Histogram::average underflows in max - min
AverageUnderflows(r) == r.max < r.min

\* Histogram::average / average_lt on a range, with wrapping arithmetic
RangeAverage(r) == Wrap64(r.min + Wrap64(r.max - r.min) \div 2)

\* Histogram::average
Average == RangeAverage(range)

\* Histogram::average_lt
AverageLt == RangeAverage(range_lifetime)

\* Histogram::buckets
Buckets == Len(buckets)

\* Histogram::sample_count / sample_count_p, the sum of slot pid's counts from bucket i.
\* usize cannot overflow here: bucket times are distinct u32 and counts are u32.
RECURSIVE SumCounts(_, _, _)
SumCounts(bs, pid, i) ==
    IF i > Len(bs) THEN 0 ELSE bs[i].scale[pid + 1].count + SumCounts(bs, pid, i + 1)

\* Histogram::sample_count
SampleCount == SumCounts(buckets, 0, 1)

----------------------------------------------------------------------------
(* The histogram under append calls and the passing of time *)

\* the configurations of the histogram: all pass Config::validate
HistPercentiles == {<<>>, <<51, 75>>}
HistConfigs ==
    [percentiles : HistPercentiles, span_sec : {1}, live_time_sec : {2}]
    \cup [percentiles : HistPercentiles, span_sec : {2}, live_time_sec : {3}]

IdleAcc ==
    /\ acc = ScaleZero
    /\ acc_hist = [total |-> 0, calls |-> 0, overflowed |-> FALSE, merged |-> FALSE]

IdleCfg ==
    /\ find_res = [called |-> FALSE, sel |-> 0, res |-> [ok |-> FALSE, slot |-> 0, err |-> <<>>]]
    /\ validate_res = [called |-> FALSE, res |-> [ok |-> FALSE, msg |-> <<>>]]

IdleRange ==
    check_in_res = [called |-> FALSE, r |-> RangeDefault, percentile |-> 0,
                    value |-> 0, res |-> FALSE]

IdleHist ==
    /\ elapsed = 0
    /\ HistogramNew
    /\ panicked = FALSE
    /\ log = <<>>
    /\ evicted = {}

Init ==
    /\ config \in HistConfigs
    /\ overflow_checks \in BOOLEAN
    /\ IdleHist
    /\ IdleAcc
    /\ IdleCfg
    /\ IdleRange

Next ==
    \/ Tick
    \/ \E value \in Values : HistAppend(value)

Spec == Init /\ [][Next]_vars

----------------------------------------------------------------------------
(* The histogram under append calls that never stop.  The clock's reading
   saturates (AppendTime), so the run goes on at the last offset. *)

\* the value of the endless appends: it keeps the Scale's sum moving when the
\* counters have saturated (10, 5, 0, 10, ... at the scaled width)
LiveValue == 10

InitLive ==
    /\ config \in {c \in HistConfigs : c.percentiles = <<>> /\ c.span_sec = 2}
    /\ overflow_checks \in BOOLEAN
    /\ IdleHist
    /\ IdleAcc
    /\ IdleCfg
    /\ IdleRange

NextLive ==
    \/ Tick
    \/ HistAppendUnlogged(LiveValue)

\* time advances while it can, and append keeps being called
SpecLive ==
    /\ InitLive
    /\ [][NextLive]_vars
    /\ WF_vars(Tick)
    /\ WF_vars(HistAppendUnlogged(LiveValue))

----------------------------------------------------------------------------
(* A Scale under append and add calls *)

\* Scale::add, with wrapping arithmetic
ScaleAdd(s, other) ==
    ScaleAppend([s EXCEPT !.count = Wrap32(s.count + other.count),
                          !.power = Wrap32(s.power + other.power)],
                other.sum)

\* Scale::add overflows in count += or power +=
ScaleAddOverflows(s, other) ==
    s.count + other.count > U32_MAX \/ s.power + other.power > U32_MAX

\* the Scales merged into the Scale under test
OtherScales == [sum : {0, 3, U64_MAX - 1}, power : {0, 1}, count : {1, U32_MAX}]

\* acc.append(value)
AccAppend(value) ==
    /\ ~panicked
    /\ acc_hist.calls < MaxScaleOps
    /\ acc' = ScaleAppend(acc, value)
    /\ acc_hist' = [acc_hist EXCEPT
                       !.total = @ + value,
                       !.calls = @ + 1,
                       !.overflowed = @ \/ ScaleAppendOverflows(acc, value)]
    /\ UNCHANGED <<config, overflow_checks, histVars, cfgVars, rangeVars>>

\* acc.add(&other): with overflow checks an overflowing += aborts the call,
\* after count was updated when it is the power that overflows
AccAdd(other) ==
    /\ ~panicked
    /\ acc_hist.calls < MaxScaleOps
    /\ IF overflow_checks /\ ScaleAddOverflows(acc, other)
       THEN /\ acc' = IF acc.count + other.count > U32_MAX
                      THEN acc
                      ELSE [acc EXCEPT !.count = acc.count + other.count]
            /\ panicked' = TRUE
       ELSE /\ acc' = ScaleAdd(acc, other)
            /\ panicked' = FALSE
    /\ acc_hist' = [acc_hist EXCEPT
                       !.calls = @ + 1,
                       !.merged = TRUE,
                       !.overflowed = @ \/ ScaleAddOverflows(acc, other)]
    /\ UNCHANGED <<config, overflow_checks, elapsed, buckets, range, range_lifetime,
                   log, evicted, cfgVars, rangeVars>>

InitScale ==
    /\ config = [percentiles |-> <<>>, span_sec |-> 1, live_time_sec |-> 120]
    /\ overflow_checks \in BOOLEAN
    /\ IdleHist
    /\ IdleAcc
    /\ IdleCfg
    /\ IdleRange

NextScale ==
    \/ \E value \in 0..U64_MAX : AccAppend(value)
    \/ \E other \in OtherScales : AccAdd(other)

SpecScale == InitScale /\ [][NextScale]_vars

----------------------------------------------------------------------------
(* A Range under check_in calls, at the full width of u64 *)

\* Range::check_in on a range with min <= max < 2^24: the casts are exact and
\* no addition or subtraction leaves u64 (pp <= (max - min) / 2)
CheckInFullWidth(r, percentile, value) ==
    LET pp == F32MarginOf[r.max - r.min][percentile]
    IN r.min + pp <= value /\ r.max - pp >= value

\* the margin in exact arithmetic: round((max - min) * (100 - p) / 200), half up
ExactMargin(span, percentile) == (span * (100 - percentile) + 100) \div 200

\* the Ranges under test
TestRanges == {[min |-> lo, max |-> lo + span] : lo \in {0, 7}, span \in 0..MaxSpan}

\* the values about the two edges of the band of r
EdgeValues(r, percentile) ==
    LET m == ExactMargin(r.max - r.min, percentile)
    IN {v \in {r.min + m + d : d \in {-1, 0, 1}} \cup {r.max - m + d : d \in {-1, 0, 1}} :
            v >= 0}

\* r.check_in(percentile, value)
CallCheckIn(r, percentile, value) ==
    /\ check_in_res' = [called |-> TRUE, r |-> r, percentile |-> percentile,
                        value |-> value, res |-> CheckInFullWidth(r, percentile, value)]
    /\ UNCHANGED <<config, overflow_checks, histVars, accVars, cfgVars>>

InitBand ==
    /\ config = [percentiles |-> <<>>, span_sec |-> 1, live_time_sec |-> 120]
    /\ overflow_checks \in BOOLEAN
    /\ IdleHist
    /\ IdleAcc
    /\ IdleCfg
    /\ IdleRange

\* one call on a Range
NextBand ==
    /\ ~check_in_res.called
    /\ \E r \in TestRanges, percentile \in BandPercentiles :
          \E value \in EdgeValues(r, percentile) : CallCheckIn(r, percentile, value)

SpecBand == InitBand /\ [][NextBand]_vars

----------------------------------------------------------------------------
(* A Config under validate and find calls *)

\* the percentiles of the enumerated lists
PercentileValues == {3, 50, 75, 95, 100}

RECURSIVE Lists(_)
Lists(n) ==
    IF n = 0 THEN {<<>>}
    ELSE Lists(n - 1) \cup {Append(l, p) : l \in {m \in Lists(n - 1) : Len(m) = n - 1},
                                           p \in PercentileValues}

\* a list longer than the ten entries an index selector reaches
LongList == [i \in 1..12 |-> 50 + i]

AnyConfigs ==
    [percentiles : Lists(MaxPercentiles) \cup {LongList},
     span_sec : {0, 1, 2}, live_time_sec : {0, 1, 2, 3}]

\* the selectors asked of find
Selectors == (0..12) \cup PercentileValues \cup {60, 255}

\* config.find(percentile)
CallFind(percentile) ==
    /\ find_res' = [called |-> TRUE, sel |-> percentile, res |-> Find(config, percentile)]
    /\ UNCHANGED <<config, overflow_checks, histVars, accVars, validate_res, rangeVars>>

\* config.validate()
CallValidate ==
    /\ validate_res' = [called |-> TRUE, res |-> Validate(config)]
    /\ UNCHANGED <<config, overflow_checks, histVars, accVars, find_res, rangeVars>>

InitConfig ==
    /\ config \in AnyConfigs
    /\ overflow_checks = TRUE
    /\ IdleHist
    /\ IdleAcc
    /\ IdleCfg
    /\ IdleRange

NextConfig ==
    \/ \E percentile \in Selectors : CallFind(percentile)
    \/ CallValidate

SpecConfig == InitConfig /\ [][NextConfig]_vars

----------------------------------------------------------------------------
(* The percentile queries of the histogram *)

\* Histogram::sample_count_p, for the slot pid that find resolved
SampleCountP(pid) == SumCounts(buckets, pid, 1)

\* Histogram::average_p / sample_count_p: b.scale[pid] is out of bounds in some bucket
SlotMissing(bs, pid) == \E i \in 1..Len(bs) : Len(bs[i].scale) < pid + 1

\* Histogram::average_p, the loop that adds slot pid of the buckets from i into r
\* (front to back), with wrapping arithmetic
RECURSIVE MergeSlot(_, _, _, _)
MergeSlot(bs, pid, i, r) ==
    IF i > Len(bs) THEN r
    ELSE MergeSlot(bs, pid, i + 1, ScaleAdd(r, bs[i].scale[pid + 1]))

\* Histogram::average_p, some r.add of the loop overflows
RECURSIVE MergeSlotOverflows(_, _, _, _)
MergeSlotOverflows(bs, pid, i, r) ==
    IF i > Len(bs) THEN FALSE
    ELSE \/ ScaleAddOverflows(r, bs[i].scale[pid + 1])
         \/ MergeSlotOverflows(bs, pid, i + 1, ScaleAdd(r, bs[i].scale[pid + 1]))

\* Histogram::average_p, the Scale that avg() is called on
MergedSlot(pid) == MergeSlot(buckets, pid, 1, ScaleZero)

\* Histogram::average_p(percentile), how the call ends: "err" (find's error is
\* returned), "index" (a panic on b.scale[pid]), "overflow" (a panic in r.add,
\* with overflow checks), "div0" (a panic in avg: division by zero) or "ok"
AveragePOutcome(percentile) ==
    LET f == Find(config, percentile)
    IN IF ~f.ok THEN "err"
       ELSE IF SlotMissing(buckets, f.slot) THEN "index"
       ELSE IF overflow_checks /\ MergeSlotOverflows(buckets, f.slot, 1, ScaleZero)
       THEN "overflow"
       ELSE IF ScaleAvgPanics(MergedSlot(f.slot)) THEN "div0"
       ELSE "ok"

\* Histogram::average_p(percentile), the value returned when the call ends "ok"
AveragePValue(percentile) == ScaleAvg(MergedSlot(Find(config, percentile).slot))

\* Histogram::sample_count_p(percentile), how the call ends
SampleCountPOutcome(percentile) ==
    LET f == Find(config, percentile)
    IN IF ~f.ok THEN "err"
       ELSE IF SlotMissing(buckets, f.slot) THEN "index"
       ELSE "ok"

\* Histogram::append(value) would overflow in a check_in of its loop (the
\* other arithmetic of append cannot: the clock never runs backwards and
\* Scale::append guards its additions)
HistAppendOverflows(value) ==
    \E id \in 1..Len(config.percentiles) :
        CheckInOverflows(RangeCheck(range, value), config.percentiles[id], value)

\* the selectors asked of the percentile queries
QuerySelectors == (0..10) \cup {51, 75, 95}

----------------------------------------------------------------------------
(* Properties of the histogram *)

SetMin(S) == CHOOSE x \in S : \A y \in S : x <= y
SetMax(S) == CHOOSE x \in S : \A y \in S : x >= y

\* the append calls whose bucket has not been evicted
LiveCalls == {i \in 1..Len(log) : log[i].bucket \notin evicted}
\* the values appended to buckets still in the window, and all values ever
LiveValues == {log[i].value : i \in LiveCalls}
AllValues == {log[i].value : i \in 1..Len(log)}

\* C1: the number of buckets never exceeds live_time_sec / span_sec + 1
\* (every configuration of HistConfigs has span_sec > 0 and
\* live_time_sec > span_sec, and the clock never runs backwards).
C1_BoundedMemory ==
    Buckets <= config.live_time_sec \div config.span_sec + 1

\* C2: after the appends so far, the window range's min and max are the
\* minimum and the maximum of the values appended to buckets not evicted.
C2_WindowRange ==
    LiveValues # {} =>
        /\ range.min = SetMin(LiveValues)
        /\ range.max = SetMax(LiveValues)

\* C3: after a non-empty sequence of appends, the lifetime range's min and
\* max are the minimum and the maximum of all values ever appended.
C3_LifetimeRange ==
    log # <<>> =>
        /\ range_lifetime.min = SetMin(AllValues)
        /\ range_lifetime.max = SetMax(AllValues)

\* C4: while no bucket's slot-0 count is saturated, sample_count() is the
\* number of append calls whose bucket has not been evicted.
C4_CountConservation ==
    (\A i \in 1..Len(buckets) : buckets[i].scale[1].count < U32_MAX) =>
        SampleCount = Cardinality(LiveCalls)

\* C4's case: a bucket with samples was evicted and samples remain
C4_Witness ==
    /\ evicted # {}
    /\ Cardinality(LiveCalls) >= 2
    /\ Cardinality(LiveCalls) < Len(log)
    /\ SampleCount = Cardinality(LiveCalls)

\* the sum of the counts of the percentile slots k..n of bucket b
RECURSIVE SlotCounts(_, _)
SlotCounts(b, k) ==
    IF k + 1 > Len(b.scale) THEN 0 ELSE b.scale[k + 1].count + SlotCounts(b, k + 1)

\* C5 as stated: in every bucket the counts of all the percentile slots (1..n)
\* sum to no more than the count of slot 0.
C5_SlotSum ==
    \A i \in 1..Len(buckets) : SlotCounts(buckets[i], 1) <= buckets[i].scale[1].count

\* C5 amended: in every bucket the count of each percentile slot (1..n) is no
\* more than the count of slot 0.
C5_EachSlot ==
    \A i \in 1..Len(buckets) :
        \A k \in 1..(Len(buckets[i].scale) - 1) :
            buckets[i].scale[k + 1].count <= buckets[i].scale[1].count

\* C5's case: a bucket holds two percentile slots, both with samples, one with
\* fewer than slot 0
C5_Witness ==
    \E i \in 1..Len(buckets) :
        /\ Len(buckets[i].scale) = 3
        /\ buckets[i].scale[2].count >= 1
        /\ buckets[i].scale[3].count >= 2
        /\ buckets[i].scale[2].count < buckets[i].scale[1].count

\* C8: after a non-empty sequence of appends with no eviction, average() does
\* not underflow and returns m + (M - m) / 2 for the minimum m and the maximum
\* M of the appended values.
C8_AverageMidpoint ==
    (log # <<>> /\ evicted = {}) =>
        /\ ~AverageUnderflows(range)
        /\ Average = SetMin(AllValues) + (SetMax(AllValues) - SetMin(AllValues)) \div 2

----------------------------------------------------------------------------
(* Properties of the running sum (under SpecScale) *)

\* C6: for values appended to a zeroed Scale, with count and power below
\* saturation, no addition or subtraction of append overflows, sum + power * MAX
\* is the true sum of the values, count is their number, and avg() is the floor
\* of the true sum over that number.
C6_RunningSum ==
    (~acc_hist.merged /\ acc.count < U32_MAX /\ acc.power < U32_MAX) =>
        /\ ~acc_hist.overflowed
        /\ acc.sum + acc.power * U64_MAX = acc_hist.total
        /\ acc.count = acc_hist.calls
        /\ acc_hist.calls > 0 => ScaleAvg(acc) = acc_hist.total \div acc_hist.calls

\* C6's case: the appended values sum to more than twice MAX and leave a residual
C6_Witness ==
    /\ ~acc_hist.merged
    /\ acc.power >= 2 /\ acc.power < U32_MAX
    /\ acc.count >= 3 /\ acc.count < U32_MAX
    /\ acc.sum > 0
    /\ acc_hist.total > 2 * U64_MAX

----------------------------------------------------------------------------
(* Properties of the configuration (under SpecConfig) *)

\* percentile p sits at the zero-based position i of the configured list
Holds(i, p) == i < Len(config.percentiles) /\ config.percentiles[i + 1] = p

\* p occurs at a position before i
OccursBefore(i, p) == \E j \in 0..(i - 1) : Holds(j, p)

\* find(p) was called; it and find(i) succeed with the same slot
SameSlot(i) ==
    /\ find_res.res.ok
    /\ Find(config, i).ok
    /\ Find(config, i).slot = find_res.res.slot

\* C7 as stated: for every position i <= 10 of the configured list holding a
\* value p > 10, find(p) and find(i) both succeed and return the same slot.
C7_Symmetry ==
    \A i \in 0..10 :
        (find_res.called /\ find_res.sel > 10 /\ Holds(i, find_res.sel)) => SameSlot(i)

\* C7 amended: for every position i <= 10 of the configured list holding a
\* value p > 10 that occurs at no earlier position, find(p) and find(i) both
\* succeed and return the same slot.
C7_SymmetryFirst ==
    \A i \in 0..10 :
        (/\ find_res.called /\ find_res.sel > 10
         /\ Holds(i, find_res.sel) /\ ~OccursBefore(i, find_res.sel)) => SameSlot(i)

\* C7's case: find(p) was called for the p at position 10 of a list, and for
\* the p at position 1 of a list of two different percentiles
C7_Witness ==
    /\ find_res.called /\ find_res.sel > 10
    /\ \/ Holds(10, find_res.sel) /\ SameSlot(10)
       \/ /\ Holds(1, find_res.sel) /\ ~OccursBefore(1, find_res.sel) /\ SameSlot(1)
          /\ Len(config.percentiles) = 2

\* the one-based positions of the list that hold selector s
Matches(s) == {i \in 1..Len(config.percentiles) : config.percentiles[i] = s}

\* C9: find(s) with s > 10 returns the zero-based position of the first entry
\* equal to s, plus one (which is its one-based position, the least element of
\* Matches(s)), or an error when there is none; find(s) with s <= 10
\* returns s + 1 when s is less than the length of the list, an error
\* otherwise; a returned slot is in 1..len.
C9_SelectorLookup ==
    find_res.called =>
        LET s == find_res.sel
            r == find_res.res
            len == Len(config.percentiles)
        IN /\ s > 10 =>
                IF Matches(s) # {}
                THEN r.ok /\ r.slot = SetMin(Matches(s))
                ELSE ~r.ok
           /\ s <= 10 =>
                IF s < len THEN r.ok /\ r.slot = s + 1 ELSE ~r.ok
           /\ r.ok => r.slot \in 1..len

\* C9's case: a literal selector found at the second entry of a list of two
C9_Witness ==
    /\ find_res.called /\ find_res.sel > 10 /\ find_res.res.ok
    /\ find_res.res.slot = 2
    /\ Len(config.percentiles) = 2

\* C9's other cases: a literal selector that is not configured, and an index
\* selector at the length of a non-empty list
C9_WitnessNotFound ==
    /\ find_res.called /\ ~find_res.res.ok
    /\ Len(config.percentiles) > 0
    /\ find_res.sel > 10 \/ find_res.sel = Len(config.percentiles)

\* the entry validate reports for percentile p, if any
PercentileEntries(p) ==
    IF p >= 100 THEN <<ErrLess100>> ELSE IF p <= 50 THEN <<ErrGreat50>> ELSE <<>>

\* the entries of all percentiles from position i, in the order of the list
RECURSIVE AllPercentileEntries(_, _)
AllPercentileEntries(ps, i) ==
    IF i > Len(ps) THEN <<>> ELSE PercentileEntries(ps[i]) \o AllPercentileEntries(ps, i + 1)

\* one entry per violated condition
Violations ==
    AllPercentileEntries(config.percentiles, 1)
    \o (IF config.span_sec = 0 THEN <<ErrSpan>> ELSE <<>>)
    \o (IF config.live_time_sec > config.span_sec THEN <<>> ELSE <<ErrLive>>)

\* the entries joined by ", "
Joined(entries) ==
    IF entries = <<>> THEN <<>>
    ELSE [i \in 1..(2 * Len(entries) - 1) |->
            IF i % 2 = 1 THEN entries[(i + 1) \div 2] ELSE ", "]

\* C10: validate() succeeds iff every percentile p has 50 < p < 100,
\* span_sec # 0 and live_time_sec > span_sec; when it fails its message is one
\* entry per violated condition (one per offending percentile), all joined
\* by ", ".
C10_Validate ==
    validate_res.called =>
        /\ validate_res.res.ok <=>
              /\ \A i \in 1..Len(config.percentiles) :
                    50 < config.percentiles[i] /\ config.percentiles[i] < 100
              /\ config.span_sec # 0
              /\ config.live_time_sec > config.span_sec
        /\ ~validate_res.res.ok =>
              /\ validate_res.res.msg = Joined(Violations)
              /\ Violations # <<>>

\* C10's case: validate failed on two offending percentiles (a 100 and one at
\* most 50), a zero span and a lifetime not above the span
C10_Witness ==
    /\ validate_res.called /\ ~validate_res.res.ok
    /\ Len(validate_res.res.msg) = 7
    /\ \E i, j \in 1..Len(config.percentiles) :
          config.percentiles[i] = 100 /\ config.percentiles[j] <= 50
    /\ config.span_sec = 0

----------------------------------------------------------------------------
(* Properties of the percentile queries and of eviction *)

\* C11: in every reachable state, a histogram without appends included,
\* average_p with a selector that find resolves ends with an error or a value,
\* never in a division by zero.
C11_AveragePNeverDividesByZero ==
    \A sel \in QuerySelectors :
        Find(config, sel).ok => AveragePOutcome(sel) # "div0"

\* C12: every append call runs to completion: it is not aborted by an
\* arithmetic overflow, and no arithmetic of it overflows (not the range
\* widening, the band-membership test, the bucket-age computation or the
\* accumulation), whatever the build.
C12_AppendCompletes ==
    [][log' # log =>
          /\ ~panicked'
          /\ ~HistAppendOverflows(log'[Len(log')].value)]_vars

\* the oldest bucket, the one an eviction pops
Oldest == buckets[Len(buckets)]

\* the window range of the current append call: widened with the call's value
WidenedRange == RangeCheck(range, log'[Len(log')].value)

\* this step is an append call that evicts the oldest bucket
Evicts == evicted' # evicted

\* C13: when an append evicts a bucket that held the window's minimum or
\* maximum, the window range after that append is the overall min/max of the
\* ranges of the remaining buckets.
C13_EvictionShrinks ==
    [][(/\ Evicts
        /\ \/ Oldest.range.min = WidenedRange.min
           \/ Oldest.range.max = WidenedRange.max) =>
          /\ range'.min = SetMin({buckets'[i].range.min : i \in 1..Len(buckets')})
          /\ range'.max = SetMax({buckets'[i].range.max : i \in 1..Len(buckets')})]_vars

\* C14: an append evicts the oldest bucket only if the bucket's age at the
\* call (the elapsed seconds minus its start offset) exceeds live_time_sec.
C14_EvictsOnlyAged ==
    [][Evicts => AppendTime(elapsed) - Oldest.time > config.live_time_sec]_vars

\* C17: no Scale::append and no Scale::add call is aborted by an overflow or
\* makes count or power (the wraps) smaller: the counters never wrap around,
\* and one that has reached the maximum stays there.
C17_SaturatingCounters ==
    [][/\ ~panicked'
       /\ acc'.count >= acc.count
       /\ acc'.power >= acc.power
       /\ acc.count = U32_MAX => acc'.count = U32_MAX
       /\ acc.power = U32_MAX => acc'.power = U32_MAX]_vars

\* the total held by slot pid of the buckets from i on: each Scale holds
\* sum + power * MAX (C6)
RECURSIVE SlotTotal(_, _, _)
SlotTotal(bs, pid, i) ==
    IF i > Len(bs) THEN 0
    ELSE bs[i].scale[pid + 1].sum + bs[i].scale[pid + 1].power * U64_MAX
         + SlotTotal(bs, pid, i + 1)

\* C18: for a selector that find resolves, in a state with at least one
\* sample in its slot, the Scale that average_p merges has the count
\* sample_count_p gives, and average_p is the slot's total divided by it.
C18_AveragePIsMean ==
    \A sel \in QuerySelectors :
        LET pid == Find(config, sel).slot
        IN (/\ ~panicked
            /\ Find(config, sel).ok
            /\ ~SlotMissing(buckets, pid)
            /\ SampleCountP(pid) > 0) =>
              /\ AveragePOutcome(sel) = "ok"
              /\ MergedSlot(pid).count = SampleCountP(pid)
              /\ AveragePValue(sel) = SlotTotal(buckets, pid, 1) \div SampleCountP(pid)

\* the window range contains the range of every bucket in the window
RangeContainsBuckets ==
    \A i \in 1..Len(buckets) :
        range.min <= buckets[i].range.min /\ range.max >= buckets[i].range.max

C20_SlotsComplete ==
    ~panicked =>
        /\ \A i \in 1..Len(buckets) :
              Len(buckets[i].scale) = 1 + Len(config.percentiles)
        /\ \A sel \in QuerySelectors :
              Find(config, sel).ok =>
                  /\ SampleCountPOutcome(sel) = "ok"
                  /\ AveragePOutcome(sel) # "index"

\* C20's case: two buckets with percentiles configured, one of them with a
\* slot that admitted no value, and a selector that resolves to that slot
C20_Witness ==
    /\ ~panicked
    /\ Len(buckets) >= 2
    /\ Len(config.percentiles) = 2
    /\ \E i \in 1..Len(buckets) :
          buckets[i].scale[1].count > 0 /\ buckets[i].scale[3].count = 0
    /\ Find(config, 75).ok /\ Find(config, 75).slot = 2
    /\ SampleCountPOutcome(75) = "ok"

\* a bucket that started at offset t is in the window
InWindow(t) == \E i \in 1..Len(buckets) : buckets[i].time = t

\* C15: while append keeps being called, every bucket whose age has exceeded
\* live_time_sec is eventually evicted: none stays in the window for ever.
C15_StaleDrained ==
    \A t \in 0..U32_MAX :
        (InWindow(t) /\ AppendTime(elapsed) - t > config.live_time_sec)
            ~> ~InWindow(t)

\* C16: check_in, the test append makes on the window range widened with the
\* value, admits the value to the slot of p exactly when
\* min + margin <= value <= max - margin, with
\* margin = round((max - min) * (100 - p) / 200).
C16_BandAdmission ==
    check_in_res.called =>
        LET r == check_in_res.r
            margin == ExactMargin(r.max - r.min, check_in_res.percentile)
        IN check_in_res.res <=>
              (r.min + margin <= check_in_res.value /\ check_in_res.value <= r.max - margin)

====
